---- MODULE Spec2Model ----
(***************************************************************************)
(* Model of src/ping.py: a daily ping scheduler.  run() sleeps until the   *)
(* next local midnight, probes every configured URL with call_api, and     *)
(* retries the URLs that failed every RETRY_INTERVAL_SECONDS.              *)
(*                                                                         *)
(* Time is counted in whole ticks of the local wall clock; a day is DayLen *)
(* ticks.  datetime values are records [day, tod] (calendar day and time   *)
(* of day), timedelta values are integers of ticks.                        *)
(***************************************************************************)
EXTENDS Integers, Sequences, FiniteSets, TLC

\* ------------------------------------------------------------------ bounds
DayLen == 3          \* ticks in one calendar day
MaxClock == 9        \* the wall clock is followed up to this tick
MaxLag == 1          \* time.sleep may return this many ticks late
MaxProbeTicks == 3   \* one GET is followed for at most this many ticks
MaxWaits == 3        \* socket waits (connect, then reads) followed in one GET
REQUEST_TIMEOUT_SECONDS == 2 \* the configured request timeout, in ticks
MaxAttempt == 3      \* passes followed per cycle
MaxRetryInterval == 2 \* largest RETRY_INTERVAL_SECONDS tried

Min(a, b) == IF a <= b THEN a ELSE b

\* ------------------------------------------------- configuration (l.13-17)
\* The URLs an environment can name.
Urls == {"a", "b"}

\* API_URLS after line 14: any list of non-blank entries, in the order
\* given, the empty list and repeated entries included.
UrlLists == {<<>>, <<"a">>, <<"a", "b">>, <<"a", "a">>}

\* int(os.getenv("RETRY_INTERVAL_SECONDS", 3600)) accepts every integer.
RetryIntervals == -1 .. MaxRetryInterval

\* ------------------------------------------------------------- datetime
\* datetime.now() for a wall clock showing t ticks since day 0, 00:00.
Now(t) == [day |-> t \div DayLen, tod |-> t % DayLen]

\* dt + timedelta(days = n)
AddDays(dt, n) == [day |-> dt.day + n, tod |-> dt.tod]

\* dt.replace(hour=0, minute=0, second=0, microsecond=0)
ReplaceMidnight(dt) == [day |-> dt.day, tod |-> 0]

\* (a - b).total_seconds()
TotalSeconds(a, b) == (a.day - b.day) * DayLen + (a.tod - b.tod)

\* seconds_until_next_midnight without the timedelta(days=1) of line 55.
seconds_until_next_midnight_today(t) ==
    TotalSeconds(ReplaceMidnight(Now(t)), Now(t))

\* seconds_until_next_midnight(), read at wall-clock time t.
seconds_until_next_midnight(t) ==
    LET now == Now(t)
        tomorrow_midnight == ReplaceMidnight(AddDays(now, 1))
    IN  TotalSeconds(tomorrow_midnight, now)

\* ------------------------------------------------------------- call_api
\* What requests.get(url, timeout=...) can do: deliver a response with a
\* status code, or raise one of the exceptions of requests.exceptions.
Statuses == {101, 200, 300, 404, 500}

RaisedByGet == {"ReadTimeout", "ConnectTimeout", "ConnectionError",
                "TooManyRedirects"}

Outcomes == [kind : {"response"}, status : Statuses, exc : {"none"}]
            \cup [kind : {"raise"}, status : {0}, exc : RaisedByGet]

\* requests.get(url, timeout=REQUEST_TIMEOUT_SECONDS) applies the timeout to
\* each wait on the socket, first for the connection and then for every read
\* of the response: a wait either completes in less than the timeout or is
\* cut at the timeout and raises.  WaitSums(k) are the times k completed
\* waits can take together.
RECURSIVE WaitSums(_)
WaitSums(k) ==
    IF k = 0 THEN {0}
    ELSE {t + w : t \in WaitSums(k - 1), w \in 0 .. REQUEST_TIMEOUT_SECONDS - 1}

\* The times a GET can take before it ends with outcome o.
Durations(o) ==
    LET after(from, to) == UNION {WaitSums(k) : k \in from .. to}
        all == CASE o.exc = "ConnectTimeout" -> {REQUEST_TIMEOUT_SECONDS}
                 [] o.exc = "ReadTimeout" ->
                      {t + REQUEST_TIMEOUT_SECONDS : t \in after(1, MaxWaits - 1)}
                 [] o.exc = "ConnectionError" -> after(1, MaxWaits)
                 [] OTHER -> after(2, MaxWaits)
    IN  all \cap (0 .. MaxProbeTicks)

\* The base classes of each exception class of requests.exceptions.
Bases(cls) ==
    CASE cls = "RequestException" -> {}
      [] cls = "HTTPError"        -> {"RequestException"}
      [] cls = "ConnectionError"  -> {"RequestException"}
      [] cls = "Timeout"          -> {"RequestException"}
      [] cls = "SSLError"         -> {"ConnectionError"}
      [] cls = "ConnectTimeout"   -> {"ConnectionError", "Timeout"}
      [] cls = "ReadTimeout"      -> {"Timeout"}
      [] cls = "TooManyRedirects" -> {"RequestException"}
      [] cls = "InvalidURL"       -> {"RequestException"}

RECURSIVE IsInstance(_, _)
IsInstance(cls, of) ==
    \/ cls = of
    \/ \E b \in Bases(cls) : IsInstance(b, of)

\* response.raise_for_status(): HTTPError for a 4xx or 5xx status.
RaisesForStatus(status) == 400 <= status /\ status < 600

\* Handlers without the except RequestException clause of line 47.
Handlers_NoCatchAll == <<"Timeout", "ConnectionError", "HTTPError">>

\* The except clauses of call_api, in order.
Handlers == <<"Timeout", "ConnectionError", "HTTPError", "RequestException">>

\* The log line of each except clause.
HandlerLog(h) ==
    CASE h = "Timeout"          -> "timed_out"
      [] h = "ConnectionError"  -> "connection_error"
      [] h = "HTTPError"        -> "http_error"
      [] h = "RequestException" -> "request_error"

\* The exception raised inside the try block, "none" if it runs to its end.
RaisedInTry(o) ==
    IF o.kind = "raise" THEN o.exc
    ELSE IF RaisesForStatus(o.status) THEN "HTTPError"
    ELSE "none"

\* call_api without the logger.info of line 39.
call_api_SilentSuccess(url, o) ==
    LET e == RaisedInTry(o)
        matching == {i \in 1 .. Len(Handlers) : IsInstance(e, Handlers[i])}
        first == CHOOSE i \in matching : \A j \in matching : i <= j
    IN  IF e = "none"
        THEN [ret |-> TRUE, raised |-> FALSE, log |-> <<"calling">>]
        ELSE IF matching = {}
        THEN [ret |-> FALSE, raised |-> TRUE, log |-> <<"calling">>]
        ELSE [ret |-> FALSE, raised |-> FALSE,
              log |-> <<"calling", HandlerLog(Handlers[first])>>]

\* call_api(url) when the request ends with outcome o: the value returned,
\* whether an exception leaves the function, and the log lines written.
call_api(url, o) ==
    LET e == RaisedInTry(o)
        matching == {i \in 1 .. Len(Handlers) : IsInstance(e, Handlers[i])}
        first == CHOOSE i \in matching : \A j \in matching : i <= j
    IN  IF e = "none"
        THEN [ret |-> TRUE, raised |-> FALSE, log |-> <<"calling", "success">>]
        ELSE IF matching = {}
        THEN [ret |-> FALSE, raised |-> TRUE, log |-> <<"calling">>]
        ELSE [ret |-> FALSE, raised |-> FALSE,
              log |-> <<"calling", HandlerLog(Handlers[first])>>]

\* ------------------------------------------------------------------ state
VARIABLES
    API_URLS,                \* module global, line 14
    RETRY_INTERVAL_SECONDS,  \* module global, line 16
    clock,                   \* the local wall clock, in ticks
    pc,                      \* where run() stands
    frame,                   \* the local variables of run() bound so far
    idx,                     \* position of the for loop of line 82 in pending
    emitted,                 \* log lines written by the last step
    halt,                    \* why run() ended, "no" while it runs
    \* observations about the run, not read by the program
    urlsAtStart,             \* API_URLS as line 14 left it
    cycleStarted,            \* a daily cycle has been started
    deadline,                \* first midnight after the current cycle's start
    passes,                  \* probing passes started in the current cycle
    sawNon2xx,               \* some probe of the cycle did not get a 2xx
    atBoundary,              \* the sleep just ended reached a midnight
    pendingPos,              \* positions in API_URLS of the entries of pending
    stillPos,                \* positions in API_URLS of still_failing
    succeededPos,            \* positions whose probe succeeded this cycle
    probedPos,               \* positions probed so far in the current pass
    announced,               \* attempt number in the cycle's last retry log line
    headerShown,             \* attempt number in the cycle's last pass header
    lastCall,                \* the call of call_api made by the last step
    lastMidnightCall         \* the last call of seconds_until_next_midnight

vars == <<API_URLS, RETRY_INTERVAL_SECONDS, clock, pc, frame, idx, emitted,
          halt, urlsAtStart, cycleStarted, deadline, passes, sawNon2xx, atBoundary, pendingPos,
          stillPos, succeededPos, probedPos, announced, headerShown, lastCall,
          lastMidnightCall>>

config == <<API_URLS, RETRY_INTERVAL_SECONDS, urlsAtStart>>

\* Binding a local variable of run().
Bind(f, name, value) == (name :> value) @@ f

Bound(name) == name \in DOMAIN frame

NoCall == [url |-> "none", outcome |-> [kind |-> "none", status |-> 0, exc |-> "none"],
           ret |-> FALSE, raised |-> FALSE, duration |-> 0]

\* The request ended with a response whose status is in the 2xx range.
Is2xx(o) == o.kind = "response" /\ 200 <= o.status /\ o.status <= 299

\* First midnight strictly after wall-clock time t.
NextMidnightAfter(t) == (t \div DayLen + 1) * DayLen

\* A sleep that began at t and ended at t2 reached a midnight.
ReachedMidnight(t, t2) == t2 \div DayLen > t \div DayLen

Init ==
    /\ API_URLS \in UrlLists
    /\ urlsAtStart = API_URLS
    /\ RETRY_INTERVAL_SECONDS \in RetryIntervals
    /\ clock \in 0 .. DayLen - 1
    /\ pc = "wait"
    /\ frame = <<>>
    /\ idx = 0
    /\ emitted = <<"started">>
    /\ halt = "no"
    /\ cycleStarted = FALSE
    /\ deadline = 0
    /\ passes = 0
    /\ sawNon2xx = FALSE
    /\ atBoundary = FALSE
    /\ pendingPos = <<>>
    /\ stillPos = <<>>
    /\ succeededPos = {}
    /\ probedPos = <<>>
    /\ announced = 0
    /\ headerShown = 0
    /\ lastCall = NoCall
    /\ lastMidnightCall = [at |-> 0, ret |-> 0, made |-> FALSE]

\* ---------------------------------------------------------------- run()
\* StillFailing with the test of line 83 inverted.
StillFailing_Inverted(still_failing, url, ok) ==
    IF ok THEN Append(still_failing, url) ELSE still_failing

\* StillFailing putting a failure at the front of the list.
StillFailing_Prepend(still_failing, url, ok) ==
    IF ~ok THEN <<url>> \o still_failing ELSE still_failing

\* Lines 81-84: the list still_failing after the probe of url returned ok.
StillFailing(still_failing, url, ok) ==
    IF ~ok THEN Append(still_failing, url) ELSE still_failing

\* NextPending starting every pass again from the configured list.
NextPending_Reset(still_failing, urls) == urls

\* Line 86: the pending list of the next pass.
NextPending(still_failing, urls) == still_failing

\* ConfiguredAfterPass with the global rebound to the filtered list.
ConfiguredAfterPass_Filtered(urls, still_failing) == still_failing

\* Lines 75-86: API_URLS after a pass.  pending is a copy, list(API_URLS),
\* the only list changed in place is the still_failing made at line 81, and
\* line 86 rebinds pending alone.
ConfiguredAfterPass(urls, still_failing) == urls

\* WhilePending entering the loop body whatever pending holds.
WhilePending_Always(pending) == TRUE

\* Line 78: while pending
WhilePending(pending) == pending # <<>>

\* NextAttempt counting a retry twice.
NextAttempt_Skip(attempt) == attempt + 2

\* Line 107: attempt += 1
NextAttempt(attempt) == attempt + 1

\* Lines 66-78: compute the wait, log the next run, sleep until midnight,
\* then start the day's cycle with every configured URL pending.
WaitForMidnight ==
    /\ pc = "wait"
    /\ LET wait_seconds == seconds_until_next_midnight(clock)
           next_run == Now(clock + wait_seconds)
       IN  \E lag \in 0 .. MaxLag :
             /\ clock + wait_seconds + lag <= MaxClock
             /\ clock' = clock + wait_seconds + lag
             /\ frame' = Bind(Bind(Bind(Bind(frame,
                              "wait_seconds", wait_seconds),
                              "next_run", next_run),
                              "pending", API_URLS),
                              "attempt", 1)
             /\ lastMidnightCall' = [at |-> clock, ret |-> wait_seconds, made |-> TRUE]
             /\ deadline' = NextMidnightAfter(clock')
             /\ atBoundary' = ReachedMidnight(clock, clock')
    /\ pc' = IF WhilePending(API_URLS) THEN "pass" ELSE "wait"
    /\ emitted' = <<"next_scheduled">>
    /\ cycleStarted' = TRUE
    /\ passes' = 0
    /\ sawNon2xx' = FALSE
    /\ pendingPos' = [i \in 1 .. Len(API_URLS) |-> i]
    /\ stillPos' = <<>>
    /\ succeededPos' = {}
    /\ probedPos' = <<>>
    /\ announced' = 0
    /\ headerShown' = 0
    /\ lastCall' = NoCall
    /\ UNCHANGED <<config, idx, halt>>

\* Lines 79-82: log the header of a pass and start the for loop.
StartPass ==
    /\ pc = "pass"
    /\ pc' = "probe"
    /\ emitted' = <<"attempt_header">>
    /\ frame' = Bind(frame, "still_failing", <<>>)
    /\ idx' = 1
    /\ passes' = passes + 1
    /\ stillPos' = <<>>
    /\ probedPos' = <<>>
    /\ atBoundary' = FALSE
    /\ headerShown' = frame.attempt
    /\ lastCall' = NoCall
    /\ UNCHANGED <<config, clock, halt, cycleStarted, deadline, sawNon2xx, pendingPos,
                   succeededPos, announced, lastMidnightCall>>

\* Lines 82-84: one iteration of the for loop, the request ending with any
\* outcome after any time that outcome can take.
Probe ==
    /\ pc = "probe"
    /\ idx <= Len(frame.pending)
    /\ \E o \in Outcomes : \E d \in Durations(o) :
         LET url == frame.pending[idx]
             r == call_api(url, o)
         IN  /\ clock + d <= MaxClock
             /\ clock' = clock + d
             /\ emitted' = r.log
             /\ lastCall' = [url |-> url, outcome |-> o, ret |-> r.ret,
                             raised |-> r.raised, duration |-> d]
             /\ sawNon2xx' = (sawNon2xx \/ ~Is2xx(o))
             /\ IF r.raised
                THEN /\ pc' = "halted"
                     /\ halt' = "call_api_raised"
                     /\ frame' = Bind(frame, "url", url)
                     /\ UNCHANGED <<idx, stillPos, succeededPos, probedPos>>
                ELSE /\ pc' = "probe"
                     /\ halt' = halt
                     /\ frame' = Bind(Bind(frame, "url", url), "still_failing",
                                      StillFailing(frame.still_failing, url, r.ret))
                     /\ idx' = idx + 1
                     /\ probedPos' = Append(probedPos, pendingPos[idx])
                     /\ stillPos' = StillFailing(stillPos, pendingPos[idx], r.ret)
                     /\ succeededPos' = IF r.ret
                                        THEN succeededPos \cup {pendingPos[idx]}
                                        ELSE succeededPos
    /\ UNCHANGED <<config, cycleStarted, deadline, passes, atBoundary, pendingPos,
                   announced, headerShown, lastMidnightCall>>

\* Lines 86-90: the for loop is over; pending becomes still_failing, and
\* the cycle is complete when nothing is left.
EndPass ==
    /\ pc = "probe"
    /\ idx > Len(frame.pending)
    /\ LET pending == NextPending(frame.still_failing, API_URLS)
       IN  /\ frame' = Bind(frame, "pending", pending)
           /\ pendingPos' = NextPending(stillPos, [i \in 1 .. Len(API_URLS) |-> i])
           /\ IF pending = <<>>
              THEN /\ emitted' = <<"all_success">>
                   /\ pc' = "wait"
              ELSE /\ emitted' = <<>>
                   /\ pc' = "backoff"
    /\ API_URLS' = ConfiguredAfterPass(API_URLS, frame.still_failing)
    /\ UNCHANGED <<RETRY_INTERVAL_SECONDS, urlsAtStart, clock, idx, halt, cycleStarted,
                   deadline, passes, sawNon2xx, atBoundary, stillPos, succeededPos, probedPos, announced,
                   headerShown, lastMidnightCall>>
    /\ lastCall' = NoCall

\* Lines 93-107: having failures left, give up if midnight has passed,
\* otherwise sleep min(RETRY_INTERVAL_SECONDS, time_to_midnight) and go round
\* the while loop again.  time.sleep raises ValueError for a negative length.
Backoff ==
    /\ pc = "backoff"
    /\ frame.attempt < MaxAttempt
    /\ LET time_to_midnight == seconds_until_next_midnight(clock)
           retry_wait == Min(RETRY_INTERVAL_SECONDS, time_to_midnight)
       IN  /\ lastMidnightCall' = [at |-> clock, ret |-> time_to_midnight, made |-> TRUE]
           /\ IF time_to_midnight <= 0
              THEN /\ frame' = Bind(frame, "time_to_midnight", time_to_midnight)
                   /\ emitted' = <<"midnight_passed">>
                   /\ pc' = "wait"
                   /\ UNCHANGED <<clock, halt, atBoundary, announced>>
              ELSE IF retry_wait < 0
              THEN /\ frame' = Bind(Bind(frame, "time_to_midnight", time_to_midnight),
                                    "retry_wait", retry_wait)
                   /\ emitted' = <<"retrying">>
                   /\ announced' = frame.attempt + 1
                   /\ pc' = "halted"
                   /\ halt' = "sleep_raised"
                   /\ UNCHANGED <<clock, atBoundary>>
              ELSE \E lag \in 0 .. MaxLag :
                   /\ clock + retry_wait + lag <= MaxClock
                   /\ clock' = clock + retry_wait + lag
                   /\ frame' = Bind(Bind(Bind(frame,
                                    "time_to_midnight", time_to_midnight),
                                    "retry_wait", retry_wait),
                                    "attempt", NextAttempt(frame.attempt))
                   /\ emitted' = <<"retrying">>
                   /\ announced' = frame.attempt + 1
                   /\ pc' = IF WhilePending(frame.pending) THEN "pass" ELSE "wait"
                   /\ halt' = halt
                   /\ atBoundary' = ReachedMidnight(clock, clock')
    /\ UNCHANGED <<config, idx, cycleStarted, deadline, passes, sawNon2xx, pendingPos,
                   stillPos, succeededPos, probedPos, headerShown>>
    /\ lastCall' = NoCall

Next ==
    \/ WaitForMidnight
    \/ StartPass
    \/ Probe
    \/ EndPass
    \/ Backoff

Spec == Init /\ [][Next]_vars

\* ------------------------------------------------------------ type check
TypeOK ==
    /\ pc \in {"wait", "pass", "probe", "backoff", "halted"}
    /\ halt \in {"no", "call_api_raised", "sleep_raised"}
    /\ clock \in 0 .. MaxClock
    /\ (pc = "halted") = (halt # "no")

\* ------------------------------------------------------- scheduler phases
\* The phase of the scheduler loop run() is in at each position.
Phase(p) ==
    CASE p = "wait"    -> "WAITING_FOR_MIDNIGHT"
      [] p = "pass"    -> "PROBING"
      [] p = "probe"   -> "PROBING"
      [] p = "backoff" -> "RETRY_BACKOFF"
      [] p = "halted"  -> "HALTED"

Logged(line) == \E i \in DOMAIN emitted : emitted[i] = line

CallMade == lastCall.url # "none"

\* pending holds the entries of API_URLS at the positions pendingPos, which
\* increase: pending is a sub-sequence of API_URLS.
PendingIsSubSeq ==
    /\ Len(pendingPos) = Len(frame.pending)
    /\ \A i \in 1 .. Len(pendingPos) :
         /\ pendingPos[i] \in 1 .. Len(API_URLS)
         /\ frame.pending[i] = API_URLS[pendingPos[i]]
         /\ \A j \in 1 .. Len(pendingPos) : i < j => pendingPos[i] < pendingPos[j]

\* ================================================================ claims

\* C1: once the first midnight after the cycle's start has been reached with
\* endpoints still pending (the backoff decision is taken at or after that
\* midnight), no further retry pass is made for the cycle.  Stated for the
\* positive retry intervals, where the retry sleep itself is sound.
C1_NoRetryPastMidnight ==
    [][(/\ pc = "backoff"
        /\ clock >= deadline
        /\ RETRY_INTERVAL_SECONDS > 0) => pc' # "pass"]_vars

\* C2: a probing pass made when the wall clock has just reached a midnight
\* starts from the full configured list with the attempt counter at 1.
\* Stated for the positive retry intervals.
C2_FreshCycleAtMidnight ==
    (pc = "pass" /\ atBoundary /\ RETRY_INTERVAL_SECONDS > 0) =>
        (frame.pending = API_URLS /\ frame.attempt = 1)

\* C3 as written: for every configured list, a finished cycle whose probes
\* all got a 2xx made exactly one pass, logged overall success and is back
\* at the wait with nothing pending and no retry.
C3_AllOkOnePass_AnyList ==
    (pc = "wait" /\ cycleStarted /\ ~sawNon2xx) =>
        /\ passes = 1
        /\ frame.pending = <<>>
        /\ frame.attempt = 1
        /\ Logged("all_success")

\* C3 amended: for every non-empty configured list, a cycle whose probes all
\* get a 2xx never reaches the backoff, makes one pass only, and ends at the
\* wait with nothing pending, attempt 1 and overall success logged.
C3_AllOkOnePass ==
    (API_URLS # <<>> /\ cycleStarted /\ ~sawNon2xx) =>
        /\ pc \notin {"backoff", "halted"}
        /\ passes <= 1
        /\ frame.attempt = 1
        /\ pc = "wait" =>
             /\ passes = 1
             /\ frame.pending = <<>>
             /\ Logged("all_success")

C3_Witness ==
    /\ pc = "wait" /\ cycleStarted /\ ~sawNon2xx
    /\ passes = 1
    /\ Len(API_URLS) = 2
    /\ Logged("all_success")

\* C4: in a cycle the first pass probes the whole configured list, a later
\* pass probes exactly the entries that failed in the pass before it, pending
\* is always a sub-sequence of API_URLS no longer than before, and an entry
\* whose probe has succeeded in the cycle is not going to be probed again.
C4_PendingShrinks ==
    cycleStarted =>
        /\ PendingIsSubSeq
        /\ (pc \in {"pass", "probe"} /\ frame.attempt = 1) => frame.pending = API_URLS
        /\ (pc \in {"pass", "backoff"} /\ passes >= 1) =>
               frame.pending = frame.still_failing
        /\ pc = "probe" =>
             /\ Len(frame.still_failing) <= idx - 1
             /\ idx - 1 <= Len(frame.pending)
             /\ idx > 1 => (lastCall.ret <=>
                              ~(/\ stillPos # <<>>
                                /\ stillPos[Len(stillPos)] = pendingPos[idx - 1]))
             /\ \A i \in idx .. Len(pendingPos) : pendingPos[i] \notin succeededPos
        /\ pc \in {"pass", "backoff"} =>
             \A i \in 1 .. Len(pendingPos) : pendingPos[i] \notin succeededPos

C4_Witness ==
    /\ pc = "probe" /\ passes = 2 /\ idx = 2
    /\ Len(API_URLS) = 2
    /\ Len(frame.pending) = 1
    /\ succeededPos # {}

\* C5: whenever a retry has been scheduled, the sleep asked for is
\* min(RETRY_INTERVAL_SECONDS, time_to_midnight) and is greater than zero.
C5_RetryWaitPositive ==
    Bound("retry_wait") =>
        /\ frame.retry_wait = Min(RETRY_INTERVAL_SECONDS, frame.time_to_midnight)
        /\ frame.retry_wait > 0

\* C6: a call of seconds_until_next_midnight at time T returns W with
\* 0 < W <= one day, T + W a midnight with no midnight strictly between T
\* and T + W, and W a full day when T is itself a midnight.
C6_NextMidnight ==
    lastMidnightCall.made =>
        LET T == lastMidnightCall.at
            W == lastMidnightCall.ret
        IN  /\ 0 < W /\ W <= DayLen
            /\ (T + W) % DayLen = 0
            /\ \A m \in T + 1 .. T + W - 1 : m % DayLen # 0
            /\ T % DayLen = 0 => W = DayLen

C6_Witness ==
    /\ lastMidnightCall.made
    /\ lastMidnightCall.at % DayLen = 0
    /\ lastMidnightCall.ret = DayLen
    /\ pc = "pass"

\* C7: a backoff decision taken when no time is left to the cycle's midnight
\* logs the abandonment warning, does not sleep, and goes to the wait for
\* midnight without another probe.  Stated for the positive retry intervals.
C7_AbandonAtMidnight ==
    [][(/\ pc = "backoff"
        /\ deadline - clock <= 0
        /\ RETRY_INTERVAL_SECONDS > 0) =>
          (/\ emitted' = <<"midnight_passed">>
           /\ clock' = clock
           /\ pc' = "wait"
           /\ passes' = passes)]_vars

\* C8: call_api returns True exactly when a response with a 2xx status was
\* received.
C8_TrueIff2xx ==
    (CallMade /\ ~lastCall.raised) => (lastCall.ret <=> Is2xx(lastCall.outcome))

\* C9: whatever the outcome of the GET, call_api returns a boolean and lets
\* no exception out, a failure returns False, and run() never ends because
\* of a probe.
C9_NoExceptionEscapes ==
    /\ halt # "call_api_raised"
    /\ CallMade =>
         /\ ~lastCall.raised
         /\ lastCall.ret \in BOOLEAN
         /\ (lastCall.outcome.kind = "raise"
             \/ RaisesForStatus(lastCall.outcome.status)) =>
                lastCall.ret = FALSE

C9_Witness ==
    /\ CallMade
    /\ lastCall.outcome.exc = "TooManyRedirects"
    /\ lastCall.ret = FALSE
    /\ pc = "probe"
    /\ Logged("request_error")

\* C10: the only changes of phase are WAITING_FOR_MIDNIGHT -> PROBING,
\* PROBING -> WAITING_FOR_MIDNIGHT, PROBING -> RETRY_BACKOFF,
\* RETRY_BACKOFF -> PROBING and RETRY_BACKOFF -> WAITING_FOR_MIDNIGHT; run()
\* never halts.
PhaseTransitions ==
    {<<"WAITING_FOR_MIDNIGHT", "PROBING">>,
     <<"PROBING", "WAITING_FOR_MIDNIGHT">>,
     <<"PROBING", "RETRY_BACKOFF">>,
     <<"RETRY_BACKOFF", "PROBING">>,
     <<"RETRY_BACKOFF", "WAITING_FOR_MIDNIGHT">>}

C10_TerminalFreeLoop ==
    [][\/ Phase(pc') = Phase(pc)
       \/ <<Phase(pc), Phase(pc')>> \in PhaseTransitions]_vars

\* C11: within a pass the entries of pending are probed one after the other,
\* each once, in the order of the configured list, and still_failing keeps
\* the failed entries in that order.
Increasing(positions) ==
    \A i, j \in 1 .. Len(positions) : i < j => positions[i] < positions[j]

C11_SequentialInOrder ==
    (cycleStarted /\ pc = "probe") =>
        /\ probedPos = SubSeq(pendingPos, 1, idx - 1)
        /\ idx > Len(frame.pending) => probedPos = pendingPos
        /\ Increasing(probedPos)
        /\ Increasing(stillPos)
        /\ Len(frame.still_failing) = Len(stillPos)
        /\ \A i \in 1 .. Len(stillPos) :
             /\ frame.still_failing[i] = API_URLS[stillPos[i]]
             /\ \E k \in 1 .. Len(probedPos) : probedPos[k] = stillPos[i]

C11_Witness ==
    /\ pc = "probe"
    /\ API_URLS = <<"a", "b">>
    /\ probedPos = <<1, 2>>
    /\ frame.still_failing = <<"a", "b">>

\* C12: every call of call_api ends within REQUEST_TIMEOUT_SECONDS of its
\* start.
C12_ProbeWithinTimeout ==
    CallMade => lastCall.duration <= REQUEST_TIMEOUT_SECONDS

\* C13: a call of call_api writes exactly two log lines, first the attempt
\* and then the outcome: success, or one failure class among timeout,
\* connection error, HTTP error and other request error, the class being the
\* one of what happened to the request.
FailureClasses(o) ==
    CASE o.kind = "response"       -> {"http_error"}
      [] o.exc = "ReadTimeout"     -> {"timed_out"}
      [] o.exc = "ConnectTimeout"  -> {"timed_out", "connection_error"}
      [] o.exc = "ConnectionError" -> {"connection_error"}
      [] OTHER                     -> {"request_error"}

C13_TwoLogLines ==
    CallMade =>
        /\ Len(emitted) = 2
        /\ emitted[1] = "calling"
        /\ lastCall.ret => emitted[2] = "success"
        /\ ~lastCall.ret => emitted[2] \in FailureClasses(lastCall.outcome)

C13_Witness ==
    /\ CallMade
    /\ lastCall.outcome.exc = "ConnectTimeout"
    /\ emitted = <<"calling", "timed_out">>
    /\ ~lastCall.ret

\* C14: in a cycle the attempt counter is the ordinal of the current pass (it
\* is 1 for the first pass and one more after each retry sleep), so the
\* number announced in a retry log line is the number the header of the next
\* pass shows.
C14_AttemptIsPassOrdinal ==
    (cycleStarted /\ halt = "no") =>
        /\ pc \in {"probe", "backoff"} =>
             (frame.attempt = passes /\ headerShown = passes)
        /\ pc = "pass" => frame.attempt = passes + 1
        /\ (pc = "probe" /\ passes >= 2) => headerShown = announced

C14_Witness ==
    /\ pc = "probe"
    /\ passes = 2
    /\ announced = 2
    /\ headerShown = 2
    /\ frame.attempt = 2

\* C15: after any sequence of waits, passes and retries API_URLS is the list
\* it was at process start, whatever has become of pending.
C15_ConfiguredListFixed ==
    API_URLS = urlsAtStart

C15_Witness ==
    /\ pc = "pass"
    /\ passes = 1
    /\ urlsAtStart = <<"a", "b">>
    /\ frame.pending = <<"b">>
    /\ API_URLS = <<"a", "b">>

\* C16: time_to_midnight is never <= 0, the warning 'Midnight passed while
\* retrying' is never logged, and the retry loop of a cycle is left only with
\* pending empty.
C16_LoopLeftOnlyWhenEmpty ==
    [][/\ Bound("time_to_midnight")' => frame'.time_to_midnight > 0
       /\ emitted' # <<"midnight_passed">>
       /\ (pc \in {"pass", "probe", "backoff"}
           /\ pc' \notin {"pass", "probe", "backoff"}) =>
              (pc' = "wait" /\ frame'.pending = <<>>)]_vars

\* C17: with an empty configured list run() never calls call_api, never logs
\* a pass header or the overall-success line, and keeps going from one wait
\* for midnight to the next without halting.
C17_EmptyListIdles ==
    API_URLS = <<>> =>
        /\ pc = "wait"
        /\ halt = "no"
        /\ ~CallMade
        /\ passes = 0
        /\ emitted \in {<<"started">>, <<"next_scheduled">>}
        /\ cycleStarted => frame.pending = <<>>

C17_Witness ==
    /\ API_URLS = <<>>
    /\ pc = "wait"
    /\ cycleStarted
    /\ clock >= 2 * DayLen
    /\ emitted = <<"next_scheduled">>

====
